---- MODULE Spec2Model ----
(***************************************************************************)
(* A model of pytube_downloader.py: the filename sanitizer, the progress   *)
(* hook, the four download functions driven by the download engine, the   *)
(* Download button handler and the cached thumbnail resolver.             *)
(*                                                                         *)
(* Text is modelled as a sequence of code points (Python str), so the      *)
(* regular expression's character ranges, str.isdigit, str.strip,          *)
(* str.split and urlparse are computed character by character.            *)
(***************************************************************************)
EXTENDS Integers, Sequences, FiniteSets, TLC

VARIABLES
    \* sanitize_filename applied once and twice to an input
    filename, sanitized, resanitized, sanPc,
    \* one invocation of update_progress
    d, hookEvent, hookOut, progPc,
    \* get_youtube_thumbnail and its module-level cache
    thumbnail_cache, probe, history, derivations,
    \* a download call, the engine it drives, and the button handler
    caller, fn, pc, progress_bar, stop_event, dirs, callbacks, published,
    ret, cause, handler, setEarly, setDuringRun, cancel_button,
    cancelClicked, info, calls, uiMsg, layouts

sanVars == <<filename, sanitized, resanitized, sanPc>>
progVars == <<d, hookEvent, hookOut, progPc>>
thumbVars == <<thumbnail_cache, probe, history, derivations>>
dlVars == <<caller, fn, pc, progress_bar, stop_event, dirs, callbacks,
            published, ret, cause, handler, setEarly, setDuringRun,
            cancel_button, cancelClicked, info, calls, uiMsg, layouts>>
vars == <<sanVars, progVars, thumbVars, dlVars>>

---------------------------------------------------------------------------
(* Bounds of the model *)

\* longest title / filename body enumerated character by character
MaxTitleLen == 2
\* most progress callbacks the engine emits in one download call
MaxTicks == 2
\* download calls made one after the other on the same directory tree
MaxCalls == 2
\* most path segments of an enumerated URL
MaxSegs == 2
\* calls of get_youtube_thumbnail in one run
MaxLookups == 3

---------------------------------------------------------------------------
(* Text helpers: Python str operations on sequences of code points *)

\* s * n for a one-character string
Repeat(c, n) == [i \in 1..n |-> c]

\* str.startswith
StartsWith(s, p) == Len(s) >= Len(p) /\ SubSeq(s, 1, Len(p)) = p

\* `p in s` for strings
Contains(s, p) ==
    \E i \in 1..(Len(s) - Len(p) + 1) : SubSeq(s, i, i + Len(p) - 1) = p

\* positions of character c in s
Positions(s, c) == {i \in 1..Len(s) : s[i] = c}

\* least element of a non-empty set of integers
Least(S) == CHOOSE x \in S : \A y \in S : x <= y

\* greatest element of a non-empty set of integers
Greatest(S) == CHOOSE x \in S : \A y \in S : x >= y

\* s[n:]
From(s, n) == SubSeq(s, n, Len(s))

\* str.isdigit on one ASCII character
IsDigit(c) == c \in 48..57

---------------------------------------------------------------------------
(* Folder constants, lines 15-17 *)

\* "youtube_downloads", relative to the working directory
DOWNLOAD_FOLDER ==
    <<121, 111, 117, 116, 117, 98, 101, 95, 100, 111, 119, 110, 108, 111,
      97, 100, 115>>
\* os.path.join(DOWNLOAD_FOLDER, "Videos")
VIDEO_FOLDER == DOWNLOAD_FOLDER \o <<47>> \o <<86, 105, 100, 101, 111, 115>>
\* os.path.join(DOWNLOAD_FOLDER, "Audio")
AUDIO_FOLDER == DOWNLOAD_FOLDER \o <<47>> \o <<65, 117, 100, 105, 111>>

\* On disk a folder is named by its constant: dirs holds the names of the
\* folders that exist.
AllFolders == {"DOWNLOAD_FOLDER", "VIDEO_FOLDER", "AUDIO_FOLDER"}

---------------------------------------------------------------------------
(* sanitize_filename, lines 27-34 *)

max_length == 255

\* the character class of the regular expression on line 29:
\* [<>:"/\\|?*\x00-\x1F\x7F\[\],#]
ReClass == {60, 62, 58, 34, 47, 92, 124, 63, 42, 91, 93, 44, 35}
               \cup (0..31) \cup {127}

\* a faulty class that lacks the control range \x00-\x1F
ReSubNoControl(s) ==
    [i \in 1..Len(s) |->
        IF s[i] \in (ReClass \ (0..31)) THEN 95 ELSE s[i]]

\* re.sub(class, '_', filename)
ReSub(s) == [i \in 1..Len(s) |-> IF s[i] \in ReClass THEN 95 ELSE s[i]]

\* str.replace(" ", "_")
ReplaceSpace(s) == [i \in 1..Len(s) |-> IF s[i] = 32 THEN 95 ELSE s[i]]

\* the truncation of lines 32-33
Truncate(s) == IF Len(s) > max_length THEN SubSeq(s, 1, max_length) ELSE s

sanitize_filename(name) == Truncate(ReplaceSpace(ReSub(name)))

---------------------------------------------------------------------------
(* update_progress, lines 37-48 *)

\* ''.join(filter(lambda x: x.isdigit() or x == '%', percentage))
Cleaned(s) == SelectSeq(s, LAMBDA c : IsDigit(c) \/ c = 37)

\* str.strip('%'): leading and trailing '%' removed
StripPercent(s) ==
    LET keep == {i \in 1..Len(s) : s[i] # 37}
    IN  IF keep = {} THEN <<>> ELSE SubSeq(s, Least(keep), Greatest(keep))

\* whether int(s) succeeds on a string of digits and '%' (else ValueError)
IntParses(s) == Len(s) > 0 /\ \A i \in 1..Len(s) : IsDigit(s[i])

\* int(s) for a string of decimal digits
RECURSIVE IntOf(_)
IntOf(s) ==
    IF Len(s) = 0 THEN 0
    ELSE 10 * IntOf(SubSeq(s, 1, Len(s) - 1)) + (s[Len(s)] - 48)

\* The value handed to progress_bar.progress, times 100 (the code divides
\* the parsed integer by 100; the model keeps the numerator so that the
\* fraction v lies in [0.0, 1.0] exactly when 0 <= 100 v <= 100).
ProgressValue(percentage) ==
    LET t == StripPercent(Cleaned(percentage))
    IN  IF IntParses(t) THEN IntOf(t) ELSE 0

\* a hook that leaves out the stop_event check of lines 39-40
update_progress_unchecked(dd, ev) ==
    IF dd.status = "downloading" /\ dd.has_percent_str
        THEN [raised |-> "no", publish |-> <<ProgressValue(dd.percent_str)>>]
        ELSE [raised |-> "no", publish |-> <<>>]

\* update_progress(d, progress_bar, stop_event): what it raises and what it
\* publishes. ev is stop_event: "none" (the default None, on which
\* stop_event.is_set() raises AttributeError), "clear" or "set".
update_progress(dd, ev) ==
    IF ev = "none" THEN [raised |-> "AttributeError", publish |-> <<>>]
    ELSE IF ev = "set" THEN [raised |-> "cancelled", publish |-> <<>>]
    ELSE IF dd.status = "downloading" /\ dd.has_percent_str
        THEN [raised |-> "no", publish |-> <<ProgressValue(dd.percent_str)>>]
        ELSE [raised |-> "no", publish |-> <<>>]

---------------------------------------------------------------------------
(* get_youtube_thumbnail, lines 165-191, and the urllib.parse functions   *)
(* it calls                                                                *)

\* str.isalpha on one ASCII character
IsAlpha(c) == c \in (65..90) \cup (97..122)

\* the characters urlsplit accepts in a scheme: letters, digits, + - .
SchemeChar(c) == IsAlpha(c) \/ IsDigit(c) \/ c \in {43, 45, 46}

\* str.split(sep) for a one-character separator
RECURSIVE Split(_, _)
Split(s, sep) ==
    IF Positions(s, sep) = {} THEN <<s>>
    ELSE LET k == Least(Positions(s, sep))
         IN  <<SubSeq(s, 1, k - 1)>> \o Split(From(s, k + 1), sep)

\* the first position of s that holds a character of C, or 0
FirstOf(s, C) ==
    LET P == {k \in 1..Len(s) : s[k] \in C}
    IN  IF P = {} THEN 0 ELSE Least(P)

\* s[:k-1] for a position k, all of s when k = 0 (no separator found)
Before(s, k) == IF k = 0 THEN s ELSE SubSeq(s, 1, k - 1)

\* s[k+1:] for a position k, empty when k = 0 (no separator found)
After(s, k) == IF k = 0 THEN <<>> ELSE From(s, k + 1)

\* urlsplit: a scheme ends at the first ':' when that is not the first
\* character, the URL starts with a letter and every character before the
\* ':' is a scheme character
HasScheme(url) ==
    LET i == FirstOf(url, {58})
    IN  /\ i > 1
        /\ IsAlpha(url[1])
        /\ \A k \in 1..(i - 1) : SchemeChar(url[k])

\* the URL after its scheme and ':'
AfterScheme(url) ==
    IF HasScheme(url) THEN After(url, FirstOf(url, {58})) ELSE url

\* urlsplit: the netloc follows '//' and runs up to the first of / ? #
Netloc(rest) ==
    IF StartsWith(rest, <<47, 47>>)
    THEN Before(From(rest, 3), FirstOf(From(rest, 3), {47, 63, 35}))
    ELSE <<>>

\* the URL after its netloc
AfterNetloc(rest) ==
    IF StartsWith(rest, <<47, 47>>)
    THEN From(rest, 2 + Len(Netloc(rest)) + 1)
    ELSE rest

\* urlparse(url): scheme, netloc, then the fragment cut off at '#' and the
\* query split off at the first '?'
urlparse(url) ==
    LET r == Before(AfterNetloc(AfterScheme(url)),
                    FirstOf(AfterNetloc(AfterScheme(url)), {35}))
    IN  [scheme |-> IF HasScheme(url)
                    THEN Before(url, FirstOf(url, {58})) ELSE <<>>,
         netloc |-> Netloc(AfterScheme(url)),
         path |-> Before(r, FirstOf(r, {63})),
         query |-> After(r, FirstOf(r, {63}))]

\* one field of a query string: name=value split at the first '='; ok is
\* FALSE for a field without '='
QueryField(field) ==
    [ok |-> FirstOf(field, {61}) > 0,
     name |-> Before(field, FirstOf(field, {61})),
     value |-> After(field, FirstOf(field, {61}))]

\* the values among fields (the query split at '&') that are named key;
\* fields without '=' and fields with a blank value are dropped
ValuesNamed(fields, key) ==
    LET kept == SelectSeq(fields,
                    LAMBDA f : /\ QueryField(f).ok
                               /\ Len(QueryField(f).value) > 0
                               /\ QueryField(f).name = key)
    IN  [k \in 1..Len(kept) |-> QueryField(kept[k]).value]

\* parse_qs(query)[key]: the values of key, in order. An empty result is
\* the KeyError of line 176.
QueryValues(query, key) == ValuesNamed(Split(query, 38), key)

HostWww == <<119, 119, 119, 46, 121, 111, 117, 116, 117, 98, 101, 46, 99, 111, 109>>
HostYoutube == <<121, 111, 117, 116, 117, 98, 101, 46, 99, 111, 109>>
HostShort == <<121, 111, 117, 116, 117, 46, 98, 101>>
PathWatch == <<47, 119, 97, 116, 99, 104>>
PathShorts == <<47, 115, 104, 111, 114, 116, 115, 47>>

\* the return value None
None == [some |-> FALSE, url |-> <<>>]

\* f"https://img.youtube.com/vi/{video_id}/maxresdefault.jpg"
ThumbnailUrl(video_id) ==
    [some |-> TRUE,
     url |-> <<104, 116, 116, 112, 115, 58, 47, 47, 105, 109, 103, 46, 121,
               111, 117, 116, 117, 98, 101, 46, 99, 111, 109, 47, 118, 105,
               47>>
             \o video_id
             \o <<47, 109, 97, 120, 114, 101, 115, 100, 101, 102, 97, 117,
                  108, 116, 46, 106, 112, 103>>]

\* the identifier of a /watch URL: None on the KeyError of line 176
WatchThumbnail(v) == IF Len(v) = 0 THEN None ELSE ThumbnailUrl(v[1])

\* the last piece of a split path, path.split('/')[-1]
LastPart(parts) == parts[Len(parts)]

\* Lines 173-189 on the parsed URL: the value returned. Every path that
\* returns None (lines 180, 184, 189 and the bare except of 190-191, taken
\* on the KeyError of line 176) leaves the cache alone.
DeriveParsed(parsed_url) ==
    IF parsed_url.netloc \in {HostWww, HostYoutube, HostShort}
    THEN IF Contains(parsed_url.netloc, HostYoutube)
         THEN IF parsed_url.path = PathWatch
              THEN WatchThumbnail(QueryValues(parsed_url.query, <<118>>))
              ELSE IF StartsWith(parsed_url.path, PathShorts)
              THEN ThumbnailUrl(LastPart(Split(parsed_url.path, 47)))
              ELSE None
         ELSE IF Contains(parsed_url.netloc, HostShort)
         THEN ThumbnailUrl(From(parsed_url.path, 2))
         ELSE None
    ELSE None

\* lines 172-191 on a cache miss
Derive(url) == DeriveParsed(urlparse(url))

\* a resolver that never stores what it derived
CacheStoreNothing(cache, url, thumbnail_url) == cache

\* thumbnail_cache[url] = thumbnail_url, line 186
CacheStore(cache, url, thumbnail_url) ==
    [u \in DOMAIN cache \cup {url} |->
        IF u = url THEN thumbnail_url ELSE cache[u]]

---------------------------------------------------------------------------
(* create_folders and the download functions, lines 20-24 and 51-162 *)

\* a layout step that leaves out the Audio folder
FolderOrderNoAudio == <<"DOWNLOAD_FOLDER", "VIDEO_FOLDER">>

\* the folders create_folders makes, in the order of lines 22-24
FolderOrder == <<"DOWNLOAD_FOLDER", "VIDEO_FOLDER", "AUDIO_FOLDER">>

\* the first k folders of create_folders
FirstFolders(k) == {FolderOrder[i] : i \in 1..k}

\* os.path.join(a, b) for a non-empty a without a trailing '/'
PathJoin(a, b) == IF StartsWith(b, <<47>>) THEN b ELSE a \o <<47>> \o b

\* info_dict.get(key, default)
InfoTitle(i) ==
    IF i.has_title THEN i.title
    ELSE <<85, 110, 116, 105, 116, 108, 101, 100>>
InfoExt(i) == IF i.has_ext THEN i.ext ELSE <<109, 112, 52>>

\* the functions that report the path of one file
SingleItem == {"download_best_stream", "download_audio"}
Functions == SingleItem \cup {"download_playlist", "download_channel"}

\* the value a download function returns when the engine call completes:
\* lines 65-73, 102-106, 130 and 154
ReturnedPath(f, i) ==
    IF f = "download_best_stream"
        THEN PathJoin(VIDEO_FOLDER,
                 sanitize_filename(InfoTitle(i)) \o <<46>> \o InfoExt(i))
    ELSE IF f = "download_audio"
        THEN PathJoin(AUDIO_FOLDER,
                 sanitize_filename(InfoTitle(i)) \o <<46, 109, 112, 51>>)
    ELSE VIDEO_FOLDER

\* The file the engine is configured to write for a reported title and
\* extension: the output template of line 57 or 90 with %(title)s and
\* %(ext)s substituted, the extension being that of the preferredcodec
\* 'mp3' of lines 92-96 in download_audio.
EngineFile(f, i) ==
    IF f = "download_audio"
        THEN AUDIO_FOLDER \o <<47>> \o i.title \o <<46, 109, 112, 51>>
        ELSE VIDEO_FOLDER \o <<47>> \o i.title \o <<46>> \o i.ext

\* 'progress_hooks': [...] if progress_bar else [], lines 59, 97, 124, 148
Hooked == progress_bar

---------------------------------------------------------------------------
(* Inputs *)

\* all strings over Chars of length at most n
StringsUpTo(Chars, n) == UNION {[1..k -> Chars] : k \in 0..n}

\* decimal digits of a natural number, as str(n)
RECURSIVE DigitsOf(_)
DigitsOf(n) ==
    IF n < 10 THEN <<48 + n>> ELSE DigitsOf(n \div 10) \o <<48 + (n % 10)>>

\* Characters fed to the sanitizer: every character the regular expression
\* names, the ends of its control range, DEL, the space, and characters it
\* leaves alone ('_', 'a', '.', '~', U+00E9).
SanChars == {60, 62, 58, 34, 47, 92, 124, 63, 42, 91, 93, 44, 35,
             0, 9, 31, 127, 32, 95, 97, 46, 126, 233}

\* A short body, alone or behind max_length - 1 characters of padding, so
\* that the body straddles the truncation point.
SanInputs ==
    {pad \o body :
        pad \in {<<>>, Repeat(97, max_length - 1), Repeat(32, max_length - 1)},
        body \in StringsUpTo(SanChars, MaxTitleLen)}

\* Percent texts as the engine formats them ("45.2%", padded " 45.2%"),
\* for every tenth of a percent from 0.0% to 100.0%, and texts that carry
\* no number ("--%", "%", "", "N/A").
PercentTexts ==
    {lead \o DigitsOf(p \div 10) \o <<46>> \o DigitsOf(p % 10) \o <<37>> :
        lead \in {<<>>, <<32>>}, p \in 0..1000}
    \cup {<<45, 45, 37>>, <<37>>, <<>>, <<78, 47, 65>>}

\* the progress events of one hook invocation
ProgressEvents ==
    {[status |-> st, has_percent_str |-> TRUE, percent_str |-> s] :
        st \in {"downloading", "finished"}, s \in PercentTexts}
    \cup {[status |-> st, has_percent_str |-> FALSE, percent_str |-> <<>>] :
        st \in {"downloading", "finished"}}

---------------------------------------------------------------------------
(* The parts of the state a specification does not exercise *)

SanOff ==
    /\ filename = <<>> /\ sanitized = <<>> /\ resanitized = <<>>
    /\ sanPc = "off"

ProgOff ==
    /\ d = [status |-> "finished", has_percent_str |-> FALSE,
            percent_str |-> <<>>]
    /\ hookEvent = "clear"
    /\ hookOut = [raised |-> "no", publish |-> <<>>]
    /\ progPc = "off"

ThumbOff ==
    /\ thumbnail_cache = <<>> /\ probe = <<>> /\ history = <<>>
    /\ derivations = <<>>

DlOff ==
    /\ caller = "none" /\ fn = "none" /\ pc = "off"
    /\ progress_bar = FALSE /\ stop_event = "none" /\ dirs = {}
    /\ callbacks = 0 /\ published = <<>> /\ ret = <<>> /\ cause = "none"
    /\ handler = "none" /\ setEarly = FALSE /\ setDuringRun = FALSE
    /\ cancel_button = FALSE /\ cancelClicked = FALSE
    /\ info = [has_title |-> FALSE, title |-> <<>>,
               has_ext |-> FALSE, ext |-> <<>>]
    /\ calls = 0 /\ uiMsg = "none" /\ layouts = <<>>

---------------------------------------------------------------------------
(* Specification SpecSan: sanitize_filename applied to a title, then to   *)
(* its own result                                                          *)

InitSan ==
    /\ filename \in SanInputs
    /\ sanitized = <<>> /\ resanitized = <<>> /\ sanPc = "input"
    /\ ProgOff /\ ThumbOff /\ DlOff

Sanitize ==
    /\ sanPc = "input"
    /\ sanitized' = sanitize_filename(filename)
    /\ sanPc' = "once"
    /\ UNCHANGED <<filename, resanitized, progVars, thumbVars, dlVars>>

SanitizeAgain ==
    /\ sanPc = "once"
    /\ resanitized' = sanitize_filename(sanitized)
    /\ sanPc' = "twice"
    /\ UNCHANGED <<filename, sanitized, progVars, thumbVars, dlVars>>

NextSan == Sanitize \/ SanitizeAgain

SpecSan == InitSan /\ [][NextSan]_vars

\* the reserved set the sanitizer must remove: < > : " / \ | ? * [ ] #,
\* the control characters NUL..US and DEL
Reserved == {60, 62, 58, 34, 47, 92, 124, 63, 42, 91, 93, 35}
                \cup (0..31) \cup {127}

\* C7: a sanitized name holds no reserved character and no space, is at
\* most 255 characters long, and sanitizing it again leaves it unchanged.
C7_SanitizerSafeIdempotent ==
    /\ sanPc \in {"once", "twice"} =>
        /\ \A i \in 1..Len(sanitized) :
               sanitized[i] \notin Reserved /\ sanitized[i] # 32
        /\ Len(sanitized) <= 255
    /\ sanPc = "twice" => resanitized = sanitized

\* C7 witness: an input longer than 255 characters that holds a control
\* character and a space has been sanitized twice.
C7_Witness ==
    /\ sanPc = "twice"
    /\ Len(filename) > 255
    /\ \E i \in 1..Len(filename) : filename[i] \in 0..31
    /\ \E i \in 1..Len(filename) : filename[i] = 32
    /\ sanitized # filename

---------------------------------------------------------------------------
(* Specification SpecProg: one invocation of update_progress *)

InitProg ==
    /\ d \in ProgressEvents
    /\ hookEvent \in {"none", "clear", "set"}
    /\ hookOut = [raised |-> "no", publish |-> <<>>]
    /\ progPc = "ready"
    /\ SanOff /\ ThumbOff /\ DlOff

UpdateProgress ==
    /\ progPc = "ready"
    /\ hookOut' = update_progress(d, hookEvent)
    /\ progPc' = "done"
    /\ UNCHANGED <<d, hookEvent, sanVars, thumbVars, dlVars>>

NextProg == UpdateProgress

SpecProg == InitProg /\ [][NextProg]_vars

\* C4: for a Downloading event with a percent text the published fraction
\* lies in [0.0, 1.0]; "45.2%" publishes 0.45; a text that cannot be parsed
\* ("--%") publishes 0.0 (published values are kept times 100).
C4_ProgressNormalized ==
    (/\ progPc = "done"
     /\ hookEvent = "clear"
     /\ d.status = "downloading"
     /\ d.has_percent_str) =>
        /\ hookOut.raised = "no"
        /\ Len(hookOut.publish) = 1
        /\ hookOut.publish[1] \in 0..100
        /\ d.percent_str = <<52, 53, 46, 50, 37>> => hookOut.publish[1] = 45
        /\ d.percent_str = <<45, 45, 37>> => hookOut.publish[1] = 0

---------------------------------------------------------------------------
(* Specification SpecThumb: calls of get_youtube_thumbnail on one probed  *)
(* URL and on a second, fixed URL, sharing the module-level cache         *)

\* "https://"
SchemePrefix == <<104, 116, 116, 112, 115, 58, 47, 47>>

UrlHosts ==
    {HostWww, HostYoutube, HostShort,
     <<109, 46, 121, 111, 117, 116, 117, 98, 101, 46, 99, 111, 109>>,
     <<101, 120, 97, 109, 112, 108, 101, 46, 99, 111, 109>>}

\* path segments: "watch", "shorts", "A1", ""
UrlSegments ==
    {<<119, 97, 116, 99, 104>>, <<115, 104, 111, 114, 116, 115>>,
     <<65, 49>>, <<>>}

\* every path of n segments, each behind a '/'
RECURSIVE PathsOf(_)
PathsOf(n) ==
    IF n = 0 THEN {<<>>}
    ELSE {p \o <<47>> \o seg : p \in PathsOf(n - 1), seg \in UrlSegments}

UrlPaths == UNION {PathsOf(n) : n \in 0..MaxSegs}

\* "", "?v=A1", "?v=", "?t=1", "?t=1&v=A1", "?v"
UrlQueries ==
    {<<>>, <<63, 118, 61, 65, 49>>, <<63, 118, 61>>, <<63, 116, 61, 49>>,
     <<63, 116, 61, 49, 38, 118, 61, 65, 49>>, <<63, 118>>}

URLs ==
    {sch \o host \o path \o query :
        sch \in {SchemePrefix, <<>>}, host \in UrlHosts,
        path \in UrlPaths, query \in UrlQueries}
    \cup {<<>>}

\* a second URL looked up beside the probed one: "https://youtu.be/A1"
OtherURLs == {SchemePrefix \o HostShort \o <<47, 65, 49>>}

InitThumb ==
    /\ thumbnail_cache = <<>>
    /\ probe \in URLs
    /\ history = <<>>
    /\ derivations = <<>>
    /\ SanOff /\ ProgOff /\ DlOff

\* how many times lines 172-189 have run for url
Derived(url) == IF url \in DOMAIN derivations THEN derivations[url] ELSE 0

\* one call get_youtube_thumbnail(url)
get_youtube_thumbnail(url) ==
    /\ Len(history) < MaxLookups
    /\ IF url \in DOMAIN thumbnail_cache
       THEN /\ history' = Append(history,
                   [url |-> url, result |->
                       [some |-> TRUE, url |-> thumbnail_cache[url]]])
            /\ UNCHANGED <<thumbnail_cache, derivations>>
       ELSE LET r == Derive(url)
            IN  /\ derivations' =
                       [u \in DOMAIN derivations \cup {url} |->
                           IF u = url THEN Derived(url) + 1
                           ELSE derivations[u]]
                /\ thumbnail_cache' =
                       IF r.some
                       THEN CacheStore(thumbnail_cache, url, r.url)
                       ELSE thumbnail_cache
                /\ history' = Append(history, [url |-> url, result |-> r])
    /\ UNCHANGED <<probe, sanVars, progVars, dlVars>>

LookupProbe == get_youtube_thumbnail(probe)

LookupOther == \E u \in OtherURLs : get_youtube_thumbnail(u)

NextThumb == LookupProbe \/ LookupOther

SpecThumb == InitThumb /\ [][NextThumb]_vars

\* C6 as claimed: for every URL looked up, absent results included, the result is in
\* the cache once the first call has returned, the derivation has run only
\* once, and every call for that URL returned the same result.
C6_CacheStability ==
    \A k \in 1..Len(history) :
        /\ history[k].url \in DOMAIN thumbnail_cache
        /\ Derived(history[k].url) = 1
        /\ \A j \in 1..Len(history) :
               history[j].url = history[k].url =>
                   history[j].result = history[k].result

\* the number of lookups of url so far
Lookups(url) == Cardinality({j \in 1..Len(history) : history[j].url = url})

\* C6 as amended: every call for a URL returns the same result. A URL that
\* resolves to a thumbnail URL is derived once and stored before the first
\* call returns, and the entry stays in the cache unchanged. An absent
\* result is not stored: each call for such a URL derives it again.
C6_CacheStableForResolved ==
    \A k \in 1..Len(history) :
        LET u == history[k].url
            r == history[k].result
        IN  /\ \A j \in 1..Len(history) :
                   history[j].url = u => history[j].result = r
            /\ r.some =>
                   /\ u \in DOMAIN thumbnail_cache
                   /\ thumbnail_cache[u] = r.url
                   /\ Derived(u) = 1
            /\ ~r.some =>
                   /\ u \notin DOMAIN thumbnail_cache
                   /\ Derived(u) = Lookups(u)

\* C6 witness: the probed URL resolved, another URL was looked up, and the
\* probed URL was looked up again and served from the cache.
C6_Witness ==
    /\ Len(history) = 3
    /\ history[1].url = probe /\ history[3].url = probe
    /\ history[2].url # probe
    /\ history[1].result.some
    /\ Derived(probe) = 1

\* the identifier the three URL shapes carry: the v parameter of /watch,
\* the segment after /shorts/, the path of the short-link host; empty when
\* the URL carries none
CarriedIdParsed(parsed_url) ==
    IF parsed_url.netloc \in {HostWww, HostYoutube}
    THEN IF parsed_url.path = PathWatch
         THEN (IF Len(QueryValues(parsed_url.query, <<118>>)) = 0 THEN <<>>
               ELSE QueryValues(parsed_url.query, <<118>>)[1])
         ELSE IF StartsWith(parsed_url.path, PathShorts)
         THEN Split(parsed_url.path, 47)[3]
         ELSE <<>>
    ELSE IF parsed_url.netloc = HostShort
    THEN From(parsed_url.path, 2)
    ELSE <<>>

CarriedId(url) == CarriedIdParsed(urlparse(url))

\* C8: a lookup returns a thumbnail URL exactly when the URL is on a
\* recognised host and carries a video identifier in one of the three
\* shapes, and the URL returned is built from that identifier; every other
\* URL yields absent.
C8_ThumbnailByShape ==
    \A k \in 1..Len(history) :
        LET id == CarriedId(history[k].url)
        IN  IF Len(id) > 0
            THEN history[k].result = ThumbnailUrl(id)
            ELSE history[k].result = None

---------------------------------------------------------------------------
(* Specification Spec: download calls, made directly or by the Download   *)
(* button handler of lines 279-320, the engine they drive, and the        *)
(* contexts that run beside them                                          *)

\* characters of engine-reported titles: 'a' and ' '
TitleChars == {97, 32}

\* what extract_info reports: a title and an extension, either of which
\* may be missing from info_dict; extensions "mp4" and "webm"
Infos ==
    {[has_title |-> TRUE, title |-> t, has_ext |-> TRUE,
      ext |-> <<109, 112, 52>>] :
        t \in StringsUpTo(TitleChars, MaxTitleLen)}
    \cup {[has_title |-> TRUE, title |-> <<97>>, has_ext |-> TRUE,
           ext |-> <<119, 101, 98, 109>>],
          [has_title |-> FALSE, title |-> <<>>, has_ext |-> TRUE,
           ext |-> <<109, 112, 52>>],
          [has_title |-> TRUE, title |-> <<97>>, has_ext |-> FALSE,
           ext |-> <<>>]}

NoInfo == [has_title |-> FALSE, title |-> <<>>, has_ext |-> FALSE, ext |-> <<>>]

\* the progress events the engine emits in a download: Downloading with
\* " 5.0%", "45.2%", "--%" or no percent text, and a final event
EngineEvents ==
    {e \in ProgressEvents :
        \/ /\ e.status = "downloading"
           /\ e.percent_str \in {<<32, 53, 46, 48, 37>>,
                                 <<52, 53, 46, 50, 37>>, <<45, 45, 37>>, <<>>}
        \/ e.status = "finished" /\ ~e.has_percent_str}

\* the except clause that handles an exception: line 75 or line 79
ExceptClauses == {"DownloadError", "Exception"}

\* directory trees that may exist when the program starts: a subfolder
\* lies inside the download folder
InitialTrees ==
    {T \in SUBSET AllFolders : T # {} => "DOWNLOAD_FOLDER" \in T}

\* the radio options of line 230 and the function each one calls,
\* lines 288-297
OptionFunction ==
    [Video |-> "download_best_stream", Audio |-> "download_audio",
     VideoOnly |-> "download_best_stream", Playlist |-> "download_playlist",
     Channel |-> "download_channel"]

Init ==
    /\ caller = "none" /\ fn = "none" /\ pc = "idle"
    /\ progress_bar = FALSE /\ stop_event = "none"
    /\ dirs \in InitialTrees
    /\ callbacks = 0 /\ published = <<>> /\ ret = None /\ cause = "none"
    /\ handler = "none" /\ setEarly = FALSE /\ setDuringRun = FALSE
    /\ cancel_button = FALSE /\ cancelClicked = FALSE
    /\ info = NoInfo /\ calls = 0 /\ uiMsg = "none" /\ layouts = <<>>
    /\ SanOff /\ ProgOff /\ ThumbOff

\* no call is in progress and another may be made
CanStart ==
    /\ calls < MaxCalls
    /\ \/ pc \in {"idle", "handled"}
       \/ caller = "api" /\ pc \in {"returned", "raised"}

\* the state at the entry of a call
Enter(c, f, bar, ev, cb, at, msg) ==
    /\ caller' = c /\ fn' = f /\ pc' = at
    /\ progress_bar' = bar /\ stop_event' = ev /\ cancel_button' = cb
    /\ callbacks' = 0 /\ published' = <<>> /\ ret' = None
    /\ cause' = "none" /\ handler' = "none"
    /\ setEarly' = (ev = "set") /\ setDuringRun' = FALSE
    /\ cancelClicked' = FALSE /\ info' = NoInfo /\ uiMsg' = msg
    /\ calls' = calls + 1
    /\ UNCHANGED <<dirs, layouts, sanVars, progVars, thumbVars>>

\* a direct call of a download function: any progress_bar (None or a bar)
\* and any stop_event (None, a clear Event or a set Event)
ApiCall ==
    /\ CanStart
    /\ \E f \in Functions, bar \in BOOLEAN, ev \in {"none", "clear", "set"} :
           Enter("api", f, bar, ev, FALSE, "entered", "none")

\* the Download button, lines 279-297 and 319-320: without a URL a warning;
\* with one, a fresh Event, a progress bar, the value of the Cancel button
\* and the call of the function of the selected option
UiDownloadClick ==
    /\ CanStart
    /\ \E has_url \in BOOLEAN, opt \in DOMAIN OptionFunction, cb \in BOOLEAN :
           IF has_url
           THEN Enter("ui", OptionFunction[opt], TRUE, "clear", cb,
                      "entered", "none")
           ELSE Enter("ui", "none", FALSE, "none", FALSE,
                      "handled", "enter_url")

\* the function returns value: its except clauses return None
Return(value, why, clause) ==
    /\ pc' = "returned" /\ ret' = value /\ cause' = why /\ handler' = clause

\* create_folders(), called before the try block: os.makedirs(exist_ok=True)
\* on the three folders in turn. A folder that exists is left alone; making
\* a missing one may fail (permission denied, disk full), and the OSError
\* leaves the download function, which has no handler around the call.
create_folders ==
    /\ pc = "entered"
    /\ \E k \in 0..Len(FolderOrder) :
        /\ k < Len(FolderOrder) => FolderOrder[k + 1] \notin dirs
        /\ dirs' = dirs \cup FirstFolders(k)
        /\ layouts' = Append(layouts,
               [before |-> dirs, after |-> dirs \cup FirstFolders(k),
                raised |-> k < Len(FolderOrder)])
        /\ IF k = Len(FolderOrder)
           THEN pc' = "running" /\ UNCHANGED cause
           ELSE pc' = "raised" /\ cause' = "fs_error"
    /\ UNCHANGED <<caller, fn, progress_bar, stop_event, callbacks, published,
                   ret, handler, setEarly, setDuringRun, cancel_button,
                   cancelClicked, info, calls, uiMsg,
                   sanVars, progVars, thumbVars>>

\* The engine emits a progress event and calls the registered hook. An
\* exception of the hook ends the engine call and reaches an except clause,
\* which returns None. A published value outside [0, 1] may be refused by
\* the progress bar with an exception of its own. The bar shows the last
\* value published: published holds it, times 100.
EngineProgress ==
    /\ pc = "running" /\ Hooked /\ callbacks < MaxTicks
    /\ callbacks' = callbacks + 1
    /\ \E dd \in EngineEvents, clause \in ExceptClauses, refused \in BOOLEAN :
        LET r == update_progress(dd, stop_event)
            outside == r.publish # <<>> /\ r.publish[1] \notin 0..100
        IN  IF r.raised # "no"
            THEN /\ ~refused
                 /\ Return(None,
                        IF r.raised = "cancelled" THEN "cancelled"
                        ELSE "hook_error", clause)
                 /\ UNCHANGED published
            ELSE IF refused
            THEN /\ outside
                 /\ Return(None, "hook_error", clause)
                 /\ UNCHANGED published
            ELSE /\ clause = "Exception"
                 /\ published' =
                        IF r.publish = <<>> THEN published ELSE r.publish
                 /\ UNCHANGED <<pc, ret, cause, handler>>
    /\ UNCHANGED <<caller, fn, progress_bar, stop_event, dirs, setEarly,
                   setDuringRun, cancel_button, cancelClicked, info, calls,
                   uiMsg, layouts, sanVars, progVars, thumbVars>>

\* the engine call completes; the function returns the path it derives
EngineComplete ==
    /\ pc = "running"
    /\ \E i \in (IF fn \in SingleItem THEN Infos ELSE {NoInfo}) :
        /\ info' = i
        /\ Return([some |-> TRUE, url |-> ReturnedPath(fn, i)],
                  "completed", "none")
    /\ UNCHANGED <<caller, fn, progress_bar, stop_event, dirs, callbacks,
                   published, setEarly, setDuringRun, cancel_button,
                   cancelClicked, calls, uiMsg, layouts,
                   sanVars, progVars, thumbVars>>

\* the engine raises DownloadError or another exception of its own
EngineFail ==
    /\ pc = "running"
    /\ \E clause \in ExceptClauses : Return(None, "engine_error", clause)
    /\ UNCHANGED <<caller, fn, progress_bar, stop_event, dirs, callbacks,
                   published, setEarly, setDuringRun, cancel_button,
                   cancelClicked, info, calls, uiMsg, layouts,
                   sanVars, progVars, thumbVars>>

\* Another context sets the Event of a direct call while the call runs.
\* The button handler keeps its Event to itself and sets it on line 303.
SetStopEvent ==
    /\ caller = "api" /\ pc \in {"entered", "running"}
    /\ stop_event = "clear"
    /\ stop_event' = "set"
    /\ setEarly' = (callbacks = 0)
    /\ setDuringRun' = TRUE
    /\ UNCHANGED <<caller, fn, pc, progress_bar, dirs, callbacks, published,
                   ret, cause, handler, cancel_button, cancelClicked, info,
                   calls, uiMsg, layouts, sanVars, progVars, thumbVars>>

\* The user presses Cancel while the engine of the handler's call runs. The
\* button has no callback and the handler is inside the call: nothing of
\* the program's state changes but the fact of the request.
UserClickCancel ==
    /\ caller = "ui" /\ pc = "running"
    /\ ~cancelClicked
    /\ cancelClicked' = TRUE
    /\ UNCHANGED <<caller, fn, pc, progress_bar, stop_event, dirs, callbacks,
                   published, ret, cause, handler, setEarly, setDuringRun,
                   cancel_button, info, calls, uiMsg, layouts,
                   sanVars, progVars, thumbVars>>

\* the handler after the call, lines 302-318
UiFinish ==
    /\ caller = "ui" /\ pc \in {"returned", "raised"}
    /\ pc' = "handled"
    /\ IF pc = "raised"
       THEN uiMsg' = "error_occurred" /\ UNCHANGED stop_event
       ELSE IF cancel_button
       THEN uiMsg' = "cancelled" /\ stop_event' = "set"
       ELSE IF ret.some
       THEN uiMsg' = "complete" /\ UNCHANGED stop_event
       ELSE UNCHANGED <<uiMsg, stop_event>>
    /\ UNCHANGED <<caller, fn, progress_bar, dirs, callbacks, published, ret,
                   cause, handler, setEarly, setDuringRun, cancel_button,
                   cancelClicked, info, calls, layouts,
                   sanVars, progVars, thumbVars>>

Next ==
    \/ ApiCall
    \/ UiDownloadClick
    \/ create_folders
    \/ EngineProgress
    \/ EngineComplete
    \/ EngineFail
    \/ SetStopEvent
    \/ UserClickCancel
    \/ UiFinish

Spec == Init /\ [][Next]_vars

\* the download call has ended
Finished == pc \in {"returned", "raised", "handled"} /\ fn # "none"

\* the outcome a call ended in, by what happened during it
Outcome ==
    IF cause = "completed" THEN "Success"
    ELSE IF cause = "cancelled" THEN "Cancelled"
    ELSE "Failed"

\* the outcome the caller can read off the returned value: a path is a
\* success, None a failure; an exception that leaves the function is no
\* returned value at all
Observed ==
    IF pc = "raised" THEN "none"
    ELSE IF ret.some THEN "Success"
    ELSE "Failed"

\* C1: every download call ends in exactly one of Success, Cancelled and
\* Failed, and the caller can tell which: what the caller observes is the
\* outcome the call ended in.
C1_ExactlyOneOutcome ==
    (pc \in {"returned", "raised"}) => Observed = Outcome

\* C2: no exception leaves a download function; a failure of any step,
\* the directory layout included, comes back as a returned Failed outcome.
C2_NoExceptionEscapes == pc # "raised"

\* C3 as claimed: whenever the flag was set before any progress callback
\* fired, with or without a registered hook and with or without a callback,
\* the call does not end in Success.
C3_CancelledNeverSuccess == (Finished /\ setEarly) => ~ret.some

\* C3 as amended: when a hook is registered, the flag was set before any
\* progress callback fired and the engine emits a callback, that first
\* callback ends the call: it returns None on account of the cancellation
\* and never a path.
C3_CancelAtFirstCallback ==
    (Hooked /\ setEarly /\ callbacks >= 1) =>
        /\ pc # "running"
        /\ callbacks = 1
        /\ ~ret.some
        /\ cause = "cancelled"

\* C3 witness: another context set the flag during the run before the
\* first callback, and the first callback ended the call.
C3_Witness ==
    /\ pc = "returned" /\ Hooked /\ setEarly /\ setDuringRun
    /\ callbacks = 1 /\ cause = "cancelled" /\ ~ret.some

\* C5: a cancel request made while the download runs has set the flag
\* during that run by the time the call has ended.
C5_CancelSetsFlagDuringRun ==
    (caller = "ui" /\ Finished /\ cancelClicked) => setDuringRun

\* C9: while the engine runs the three folders exist, and a layout step on
\* a tree that already holds them changes nothing and raises nothing.
C9_LayoutBeforeEngine ==
    /\ pc = "running" => AllFolders \subseteq dirs
    /\ \A k \in 1..Len(layouts) :
           layouts[k].before = AllFolders =>
               layouts[k].after = AllFolders /\ ~layouts[k].raised

\* C9 witness: the engine runs in a second call, whose layout step found
\* the tree the first call had created from nothing.
C9_Witness ==
    /\ pc = "running"
    /\ Len(layouts) = 2
    /\ layouts[1].before = {} /\ ~layouts[1].raised
    /\ layouts[2].before = AllFolders

\* C10: the path a single-item function returns on success is the file
\* the engine was configured to write for the reported title and extension.
C10_ReturnedPathIsWrittenFile ==
    (/\ pc = "returned" /\ cause = "completed"
     /\ fn \in SingleItem
     /\ info.has_title /\ info.has_ext) =>
        ret.url = EngineFile(fn, info)

====
